---- MODULE Spec2Model ----
(***************************************************************************)
(* Model of autoclasswrapper/wrap_in.py: the Input session orchestrator,   *)
(* its handle_error wrapper, and the Dataset it loads and merges.          *)
(*                                                                         *)
(* Python objects live in a heap: `objs` maps a Dataset id to its fields,  *)
(* `metas` maps the id of a column meta dict to its entries, so that the   *)
(* aliasing the code creates (full_dataset = input_datasets[0], meta dicts *)
(* shared by the merged column_meta) is part of the state.                 *)
(***************************************************************************)
EXTENDS Integers, Sequences, FiniteSets, TLC

(***************************************************************************)
(* Bounds of the model.                                                    *)
(***************************************************************************)
MaxDatasets == 2
MaxRuns == 1
MaxColumns == 4

(***************************************************************************)
(* Values.                                                                 *)
(***************************************************************************)
\* A cell of a DataFrame: a float, a string, or NaN (an absent cell).
Num(n) == [k |-> "num", v |-> n]
Str(n) == [k |-> "str", v |-> n]
NaN == [k |-> "nan", v |-> 0]

\* Python's None for a DataFrame attribute.
None == [none |-> TRUE]
IsNone(x) == "none" \in DOMAIN x

\* An exception: its class and the lines of str(e).
Exc(kind, lines) == [kind |-> kind, lines |-> lines]
NoExc == Exc("none", <<>>)

Range(s) == {s[i] : i \in DOMAIN s}

(***************************************************************************)
(* Column names are sequences of characters.                               *)
(***************************************************************************)
\* The characters of the class [A-Za-z0-9 .+-].
Allowed ==
    {"a","b","c","d","e","f","g","h","i","j","k","l","m","n","o","p","q","r",
     "s","t","u","v","w","x","y","z",
     "A","B","C","D","E","F","G","H","I","J","K","L","M","N","O","P","Q","R",
     "S","T","U","V","W","X","Y","Z",
     "0","1","2","3","4","5","6","7","8","9"," ",".","+","-"}

RECURSIVE DropRun(_)
\* The rest of a name after a maximal run of characters outside the class.
DropRun(s) ==
    IF s = <<>> \/ Head(s) \in Allowed THEN s ELSE DropRun(Tail(s))

RECURSIVE regex_sub(_)
\* re.compile('[^A-Za-z0-9 .+-]+').sub("_", s): every maximal run of
\* characters outside the class becomes one "_".
regex_sub(s) ==
    IF s = <<>> THEN <<>>
    ELSE IF Head(s) \in Allowed THEN <<Head(s)>> \o regex_sub(Tail(s))
    ELSE <<"_">> \o regex_sub(DropRun(Tail(s)))

\* len(input_list) != len(set(input_list))
HasDuplicates(input_list) == Len(input_list) # Cardinality(Range(input_list))

\* raise_on_duplicates(input_list): the exception it raises, or NoExc.
raise_on_duplicates(input_list) ==
    IF HasDuplicates(input_list)
    THEN Exc("DuplicateColumnName",
             <<"Found duplicate column names:", "<names>", "Please clean your header">>)
    ELSE NoExc

(***************************************************************************)
(* The input files on disk: a path maps to the header line (row-key name   *)
(* first), the row keys and one column of cells per data column.           *)
(***************************************************************************)
Keys == {"g1", "g2"}

File(header, index, cells) == [header |-> header, index |-> index, cells |-> cells]

FS ==
    [p \in {"A.tsv", "B.tsv", "N.tsv", "S.tsv", "D.tsv", "C.tsv"} |->
        CASE p = "A.tsv" ->   \* a string column on both rows
               File(<<<<"g">>, <<"a">>>>, {"g1", "g2"},
                    <<[r \in {"g1", "g2"} |-> IF r = "g1" THEN Str(1) ELSE Str(2)]>>)
          [] p = "B.tsv" ->   \* a numeric column with an empty cell
               File(<<<<"g">>, <<"b">>>>, {"g1", "g2"},
                    <<[r \in {"g1", "g2"} |-> IF r = "g1" THEN Num(1) ELSE NaN]>>)
          [] p = "N.tsv" ->   \* a numeric column with a negative value
               File(<<<<"g">>, <<"n">>>>, {"g1", "g2"},
                    <<[r \in {"g1", "g2"} |-> IF r = "g1" THEN Num(-1) ELSE Num(2)]>>)
          [] p = "S.tsv" ->   \* one row only: a string column, then a numeric one
               File(<<<<"g", "#">>, <<"s">>, <<"t", "#", "#">>>>, {"g1"},
                    <<[r \in {"g1"} |-> Str(1)], [r \in {"g1"} |-> Num(3)]>>)
          [] p = "D.tsv" ->   \* a repeated name in the header
               File(<<<<"g">>, <<"d">>, <<"d">>>>, {"g1"},
                    <<[r \in {"g1"} |-> Num(1)], [r \in {"g1"} |-> Num(2)]>>)
          [] p = "C.tsv" ->   \* names that differ only outside the class
               File(<<<<"g">>, <<"c", "#">>, <<"c", "$">>>>, {"g1", "g2"},
                    <<[r \in {"g1", "g2"} |-> Num(1)], [r \in {"g1", "g2"} |-> Num(2)]>>)]

\* The paths a caller may pass, all absolute: the files above and one that does
\* not exist.
Paths == DOMAIN FS \cup {"missing.tsv"}

RoleNames == {"real scalar", "real location", "discrete"}
\* The roles a caller may pass: the three the code accepts and one it rejects.
Roles == RoleNames \cup {"text"}

(***************************************************************************)
(* Dataset                                                                 *)
(***************************************************************************)
\* Dataset.__init__
Dataset == [input_file |-> "", df |-> None, column_meta |-> <<>>]

Log(S, level, msg) ==
    [S EXCEPT !.logged = Append(@, [level |-> level, msg |-> msg])]

\* A body's outcome: the state it leaves and the exception it raised, if any.
Ok(S) == [S |-> S, exc |-> NoExc]
Raise(S, e) == [S |-> S, exc |-> e]

\* The last position of a label: a dict keeps the last value assigned to a key.
LastPos(columns, name) ==
    CHOOSE i \in DOMAIN columns :
        columns[i] = name /\ \A j \in DOMAIN columns : columns[j] = name => j <= i

\* Dataset.check_duplicate_col_names: the exception raised, or NoExc.
check_duplicate_col_names(input_file) ==
    IF input_file \notin DOMAIN FS
    THEN Exc("FileNotFoundError", <<"No such file or directory">>)
    ELSE raise_on_duplicates(FS[input_file].header)

\* Dataset.read_datafile on the Dataset object id.
read_datafile(S, id, input_file, data_type, error) ==
    IF data_type \notin RoleNames
    THEN Raise(S, Exc("AssertionError", <<"data type should be: 'real scalar', 'real location' or 'discrete'">>))
    ELSE
    LET S1 == [S EXCEPT !.objs[id].input_file = input_file]
        e == check_duplicate_col_names(input_file)
    IN  IF e # NoExc THEN Raise(S1, e)
        ELSE
        LET f == FS[input_file]
            columns == Tail(f.header)
            df == [index_name |-> Head(f.header), index |-> f.index,
                   columns |-> columns, data |-> f.cells]
            new == [m \in {<<id, i>> : i \in DOMAIN columns} |->
                       [type |-> data_type, error |-> error, missing |-> FALSE]]
            S2 == Log(S1, "info", "Detected encoding")
            S3 == [S2 EXCEPT
                      !.objs[id].df = df,
                      !.objs[id].column_meta =
                          [n \in Range(columns) |-> <<id, LastPos(columns, n)>>],
                      !.metas = new @@ @]
        IN  Ok(Log(S3, "info", "Found rows and columns"))

\* df.rename(columns={old: new}, inplace=True)
Rename(df, old, new) ==
    [df EXCEPT !.columns = [i \in DOMAIN @ |-> IF @[i] = old THEN new ELSE @[i]]]

\* column_meta[new] = column_meta.pop(old)
MoveKey(column_meta, old, new) ==
    [n \in (DOMAIN column_meta \ {old}) \cup {new} |->
        IF n = new THEN column_meta[old] ELSE column_meta[n]]

RECURSIVE CleanColumns(_, _, _)
\* The loop of clean_column_names over the labels the table had on entry.
CleanColumns(S, id, names) ==
    IF names = <<>> THEN S
    ELSE
    LET col_name == Head(names)
        col_name_new == regex_sub(col_name)
    IN  IF col_name_new # col_name
        THEN CleanColumns(
                 Log([S EXCEPT
                         !.objs[id].df = Rename(@, col_name, col_name_new),
                         !.objs[id].column_meta = MoveKey(@, col_name, col_name_new)],
                     "warning", "Column renamed"),
                 id, Tail(names))
        ELSE CleanColumns(S, id, Tail(names))

RECURSIVE LogColumns(_, _)
\* for name in self.df.columns: log.debug(...)
LogColumns(S, names) ==
    IF names = <<>> THEN S ELSE LogColumns(Log(S, "debug", "Column name"), Tail(names))

\* Dataset.clean_column_names on the Dataset object id.
clean_column_names(S, id) ==
    LET S0 == Log(S, "debug", "Checking column names")
        col_name == S.objs[id].df.index_name
        col_name_new == regex_sub(col_name)
        S1 == IF col_name_new # col_name
              THEN Log([S0 EXCEPT !.objs[id].df.index_name = col_name_new],
                       "warning", "Column renamed")
              ELSE S0
        S2 == CleanColumns(S1, id, S.objs[id].df.columns)
    IN  Ok(LogColumns(Log(S2, "debug", "Index name"), S2.objs[id].df.columns))

\* The positions of the columns that carry a label (df[col] selects them all).
Labelled(df, col) == {i \in DOMAIN df.columns : df.columns[i] = col}

\* df[col].astype('float64') succeeds: no cell of the selection is a string.
CastsToFloat64(df, col) ==
    \A i \in Labelled(df, col) : \A r \in df.index : df.data[i][r].k # "str"

RECURSIVE CheckColumns(_, _, _)
\* The loop of check_data_type.
CheckColumns(S, id, names) ==
    IF names = <<>> THEN Ok(S)
    ELSE
    LET col == Head(names)
        type == S.metas[S.objs[id].column_meta[col]].type
    IN  IF type \in {"real scalar", "real location"}
        THEN IF CastsToFloat64(S.objs[id].df, col)
             THEN CheckColumns(Log(S, "info", "Column description"), id, Tail(names))
             ELSE Raise(S, Exc("CastFloat64",
                               <<"Cannot cast column to float", "Check your input file!">>))
        ELSE CheckColumns(Log(S, "info", "Column different values"), id, Tail(names))

\* Dataset.check_data_type on the Dataset object id.
check_data_type(S, id) ==
    CheckColumns(Log(S, "info", "Checking data format"), id, S.objs[id].df.columns)

\* The columns in which every cell is absent.
IsNullAll(df) ==
    {i \in DOMAIN df.columns : \A r \in df.index : df.data[i][r].k = "nan"}

\* self.df.isnull().any(): the positions of the columns with an absent cell.
IsNullAny(df) ==
    {i \in DOMAIN df.columns : \E r \in df.index : df.data[i][r].k = "nan"}

\* Dataset.search_missing_values on the Dataset object id.
search_missing_values(S, id) ==
    LET ds == S.objs[id]
        columns_with_missing == {ds.df.columns[i] : i \in IsNullAny(ds.df)}
        hit == {ds.column_meta[col] : col \in columns_with_missing}
        S1 == Log(S, "info", "Searching for missing values")
    IN  IF columns_with_missing # {}
        THEN Ok(Log([S1 EXCEPT
                        !.metas = [m \in DOMAIN @ |->
                                      IF m \in hit THEN [@[m] EXCEPT !.missing = TRUE]
                                      ELSE @[m]]],
                    "warning", "Missing values found in columns"))
        ELSE Ok(Log(S1, "info", "No missing values found"))

(***************************************************************************)
(* pandas operations on a DataFrame                                        *)
(***************************************************************************)
\* The cell of column i at row r once the rows are reindexed on a larger index.
Reindexed(df, i, r) == IF r \in df.index THEN df.data[i][r] ELSE NaN

RECURSIVE ConcatColumns(_, _)
\* The labels and the cells of the frames of df_lst side by side, on the rows idx.
ConcatColumns(df_lst, idx) ==
    IF df_lst = <<>> THEN [columns |-> <<>>, data |-> <<>>]
    ELSE
    LET df == Head(df_lst)
        rest == ConcatColumns(Tail(df_lst), idx)
    IN  [columns |-> df.columns \o rest.columns,
         data |-> [i \in DOMAIN df.columns |-> [r \in idx |-> Reindexed(df, i, r)]]
                  \o rest.data]

\* pd.concat(df_lst, axis=1, join="outer") of a non-empty list: the rows are the
\* union of the row keys, a cell a frame does not have is NaN, and the index
\* keeps its name only if all frames agree on it.
concat(df_lst) ==
    LET idx == UNION {df_lst[i].index : i \in DOMAIN df_lst}
        cc == ConcatColumns(df_lst, idx)
        names == {df_lst[i].index_name : i \in DOMAIN df_lst}
    IN  [index_name |-> IF Cardinality(names) = 1 THEN df_lst[1].index_name ELSE <<>>,
         index |-> idx, columns |-> cc.columns, data |-> cc.data]

\* The cells of column i that are present.
Present(df, i) == {df.data[i][r] : r \in df.index} \ {NaN}

\* df[name].nunique(): one count per column that carries the label.
RECURSIVE nunique(_, _, _)
nunique(df, name, i) ==
    IF i > Len(df.columns) THEN <<>>
    ELSE (IF df.columns[i] = name THEN <<Cardinality(Present(df, i))>> ELSE <<>>)
         \o nunique(df, name, i + 1)

\* A column of text (read as Python strings) as opposed to float64.
IsText(df, i) == \E r \in df.index : df.data[i][r].k = "str"

\* A column whose minimum cannot be computed: strings next to NaN (a float).
Uncomparable(df, i) == IsText(df, i) /\ \E r \in df.index : df.data[i][r].k = "nan"

\* The minimum of column i, NaN cells skipped; NaN when no cell is present.
\* Text compares as text: the model orders it by the code of the string.
ColMin(df, i) ==
    LET p == Present(df, i)
    IN  IF p = {} THEN NaN
        ELSE CHOOSE c \in p : \A d \in p : c.v <= d.v

RECURSIVE Mins(_, _)
\* The minima of the columns from position i on, uncomparable columns left out.
Mins(df, i) ==
    IF i > Len(df.columns) THEN <<>>
    ELSE (IF Uncomparable(df, i) THEN <<>> ELSE <<ColMin(df, i)>>) \o Mins(df, i + 1)

\* df.min(): one minimum per column.  The reduction of an uncomparable column
\* raises TypeError: a pandas before 2.0 drops such a column from the result
\* (the other minima move up), a later pandas lets the TypeError through.
df_min(df, drops) ==
    IF ~drops /\ \E i \in DOMAIN df.columns : Uncomparable(df, i)
    THEN [exc |-> Exc("TypeError", <<"'<=' not supported between instances of 'str' and 'float'">>),
          val |-> <<>>]
    ELSE [exc |-> NoExc, val |-> Mins(df, 1)]

(***************************************************************************)
(* Input.handle_error                                                      *)
(*                                                                         *)
(* A session state S is a record of the fields of the Input object, the    *)
(* heap, the output files and what the call in progress has logged.  The   *)
(* fields trace and ever_failed record history: every invocation of a      *)
(* wrapped method, and whether a body has raised since construction.       *)
(***************************************************************************)
\* The classes `except Exception` catches: every exception the bodies raise
\* derives from Exception.
ExceptionClasses ==
    {"DuplicateColumnName", "CastFloat64", "AssertionError", "FileNotFoundError",
     "ValueError", "AttributeError", "TypeError", "IndexError"}

\* A handler that names the two exception classes of the module only.
CatchesOwnClasses(e) == e.kind \in {"DuplicateColumnName", "CastFloat64"}

\* except Exception as e
Catches(e) == e.kind \in ExceptionClasses

\* A guard that forgets the sticky flag.
GuardAlways(S) == TRUE

\* if self.tolerate_error or not self.had_error
Guard(S) == S.tolerate_error \/ ~S.had_error

RECURSIVE LogLines(_, _)
\* for line in str(e).split('\n'): log.error(line)
LogLines(S, lines) ==
    IF lines = <<>> THEN S ELSE LogLines(Log(S, "error", Head(lines)), Tail(lines))

\* A handler that logs the error and leaves the flag alone.
OnExceptionLogOnly(S, e) == LogLines(S, e.lines)

\* The except clause: log the message line by line, set the flag.
OnException(S, e) == [LogLines(S, e.lines) EXCEPT !.had_error = TRUE]

\* The value of a call: None, True, or the string of print_files.
ReturnsNone == <<>>
ReturnsTrue == <<TRUE>>

\* One invocation of a wrapped method, as history.
Traced(S, op, executed, failed, before) ==
    [S EXCEPT !.trace = Append(@, [op |-> op, executed |-> executed,
                                   failed |-> failed, failed_before |-> before])]

\* try_function for the method op called in state S, where r is the outcome of
\* the body f(self, ...) in S and ret the value the body returns.  The result
\* is the state after the call, the exception that reaches the caller and the
\* value returned.
try_function(S, op, r, ret) ==
    IF Guard(S)
    THEN IF r.exc = NoExc
         THEN [S |-> Traced(r.S, op, TRUE, FALSE, S.ever_failed),
               exc |-> NoExc, ret |-> ret]
         ELSE LET S1 == [r.S EXCEPT !.ever_failed = TRUE]
              IN  IF Catches(r.exc)
                  THEN [S |-> Traced(OnException(S1, r.exc), op, TRUE, TRUE, S.ever_failed),
                        exc |-> NoExc, ret |-> ReturnsNone]
                  ELSE [S |-> Traced(S1, op, TRUE, TRUE, S.ever_failed),
                        exc |-> r.exc, ret |-> ReturnsNone]
    ELSE [S |-> Traced(S, op, FALSE, FALSE, S.ever_failed), exc |-> NoExc, ret |-> ReturnsNone]

\* Sequencing inside a body: g continues from the outcome r unless r raised.
Then(r, g(_)) == IF r.exc = NoExc THEN g(r.S) ELSE r

(***************************************************************************)
(* Input                                                                   *)
(***************************************************************************)
missing_encoding == "?"
separator == "TAB"

\* Input.change_working_dir (body): os.chdir(self.inputfolder)
change_working_dir_body(S) ==
    LET S1 == Log(S, "info", "Changing working directory")
    IN  IF S.inputfolder = ""
        THEN Raise(S1, Exc("FileNotFoundError", <<"No such file or directory: ''">>))
        ELSE Ok([S1 EXCEPT !.cwd = S.inputfolder])

change_working_dir(S) == try_function(S, "change_working_dir", change_working_dir_body(S), ReturnsNone)

\* Input.add_input_data (body).  The new Dataset is a local object: it joins the
\* heap only when it is appended, and is unreachable when the body raises.
add_input_data_body(S, input_file, input_type, input_error) ==
    LET id == Len(S.input_datasets) + 1
        Drop(r) == Raise([r.S EXCEPT !.objs = S.objs, !.metas = S.metas], r.exc)
    IN  IF input_type \notin RoleNames
        THEN Raise(S, Exc("AssertionError", <<"data type should be: 'real scalar', 'real location' or 'discrete'">>))
        ELSE
        LET S1 == Log([S EXCEPT !.objs = (id :> Dataset) @@ @], "info", "Reading data file")
            r == Then(Then(read_datafile(S1, id, input_file, input_type, input_error),
                           LAMBDA T : clean_column_names(T, id)),
                      LAMBDA T : check_data_type(T, id))
        IN  IF r.exc # NoExc THEN Drop(r)
            ELSE Ok([r.S EXCEPT !.input_datasets = Append(@, id)])

add_input_data(S, input_file, input_type, input_error) ==
    try_function(S, "add_input_data",
                 add_input_data_body(S, input_file, input_type, input_error), ReturnsNone)

RECURSIVE UnionMeta(_, _)
\* The loop of merge_dataframes: the merged column_meta takes every entry of
\* each dataset in turn, a later entry replacing an earlier one of the same name.
UnionMeta(S, ids) ==
    IF ids = <<>> THEN S
    ELSE UnionMeta([S EXCEPT !.objs[S.full_dataset].column_meta =
                                 S.objs[Head(ids)].column_meta @@ @],
                   Tail(ids))

\* Input.merge_dataframes (body)
merge_dataframes_body(S) ==
    LET merged ==
            IF Len(S.input_datasets) = 1
            THEN Ok([S EXCEPT !.full_dataset = S.input_datasets[1]])
            ELSE
            LET S1 == Log(S, "info", "Merging input data")
                df_lst == [i \in DOMAIN S.input_datasets |-> S.objs[S.input_datasets[i]].df]
                S2 == UnionMeta(S1, S.input_datasets)
            IN  IF df_lst = <<>>
                THEN Raise(S2, Exc("ValueError", <<"No objects to concatenate">>))
                ELSE Ok([S2 EXCEPT !.objs[S.full_dataset].df = concat(df_lst)])
        Check(T) ==
            LET e == raise_on_duplicates(T.objs[T.full_dataset].df.columns)
            IN  IF e # NoExc THEN Raise(T, e)
                ELSE search_missing_values(Log(T, "info", "Final dataframe has lines and columns"),
                                           T.full_dataset)
    IN  Then(merged, Check)

merge_dataframes(S) == try_function(S, "merge_dataframes", merge_dataframes_body(S), ReturnsNone)

(***************************************************************************)
(* The file writers.  An output file is the sequence of its lines, under   *)
(* the directory that was current when it was opened.                      *)
(***************************************************************************)
\* open(name, "w"): the file exists and is empty.
Open(S, name) == [S EXCEPT !.files = (<<S.cwd, name>> :> <<>>) @@ @]

\* file.write(line)
Write(S, name, line) == [S EXCEPT !.files[<<S.cwd, name>>] = Append(@, line)]

\* The body of a method that reads self.full_dataset.df, which is None until a
\* merge has assigned it.
NeedsDf(S, body) ==
    IF IsNone(S.objs[S.full_dataset].df)
    THEN Raise(S, Exc("AttributeError", <<"'NoneType' object has no attribute">>))
    ELSE body

\* Input.create_db2_file (body): both files are written under fixed names.
create_db2_file_body(S) ==
    LET S1 == Log(Log(S, "info", "Writing db2 file"), "info", "If any, missing values will be encoded")
        df == S.objs[S.full_dataset].df
        Csv(header, na_rep) == <<[header |-> header, sep |-> separator, na_rep |-> na_rep, df |-> df]>>
    IN  NeedsDf(S1,
            Ok([Log([S1 EXCEPT !.files = (<<S.cwd, "clust.db2">> :> Csv(FALSE, missing_encoding)) @@ @],
                    "debug", "Writing tsv file")
                EXCEPT !.files = (<<S.cwd, "clust.tsv">> :> Csv(TRUE, "")) @@ @]))

create_db2_file(S) == try_function(S, "create_db2_file", create_db2_file_body(S), ReturnsNone)

RECURSIVE Hd2Columns(_, _)
\* The loop of create_hd2_file from position i on (idx = i - 1).
Hd2Columns(S, i) ==
    LET full == S.objs[S.full_dataset]
        df == full.df
    IN  IF i > Len(df.columns) THEN Ok(S)
        ELSE
        LET name == df.columns[i]
            meta == S.metas[full.column_meta[name]]
            Decl(param) == [idx |-> i, type |-> meta.type, name |-> name, param |-> param]
        IN  IF meta.type = "real scalar"
            THEN LET m == df_min(df, S.pandas_drops)
                 IN  IF m.exc # NoExc THEN Raise(S, m.exc)
                     ELSE IF i > Len(m.val)
                     THEN Raise(S, Exc("IndexError", <<"index out of bounds">>))
                     ELSE IF m.val[i].k = "str"
                     THEN Raise(S, Exc("TypeError", <<"'>=' not supported between instances of 'str' and 'float'">>))
                     ELSE IF ~(m.val[i].k = "num" /\ m.val[i].v >= 0)
                     THEN Raise(S, Exc("AssertionError", <<"min value shoud be >= 0.0">>))
                     ELSE Hd2Columns(Write(S, "clust.hd2", Decl(<<meta.error>>)), i + 1)
            ELSE IF meta.type = "real location"
            THEN Hd2Columns(Write(S, "clust.hd2", Decl(<<meta.error>>)), i + 1)
            ELSE IF meta.type = "discrete"
            THEN Hd2Columns(Write(S, "clust.hd2", Decl(nunique(df, name, 1))), i + 1)
            ELSE Hd2Columns(S, i + 1)

\* Input.create_hd2_file (body)
create_hd2_file_body(S) ==
    LET S1 == Log(S, "info", "Writing .hd2 file")
        df == S.objs[S.full_dataset].df
        Head1 == Write(Open(S1, "clust.hd2"), "clust.hd2", [tag |-> "num_db2_format_defs", n |-> 2])
        Head2 == Write(Head1, "clust.hd2", [tag |-> "number_of_attributes", n |-> Len(df.columns) + 1])
        Head3 == Write(Head2, "clust.hd2", [tag |-> "separator_char", sep |-> separator])
        Head4 == Write(Head3, "clust.hd2", [idx |-> 0, type |-> "dummy", name |-> df.index_name, param |-> <<>>])
    IN  NeedsDf(S1, Hd2Columns(Head4, 1))

create_hd2_file(S) == try_function(S, "create_hd2_file", create_hd2_file_body(S), ReturnsNone)

\* The lists to which the loop of create_model_file appends a column with
\* this meta data: the two `if` statements of the loop body.
Appends(meta) ==
    (IF meta.type \in {"real scalar", "real location"}
     THEN IF ~meta.missing THEN {"real_values_normals"} ELSE {"real_values_missing"}
     ELSE {})
    \cup (IF meta.type = "discrete" THEN {"multinomial_values"} ELSE {})

RECURSIVE Bucket(_, _, _)
\* The list of create_model_file after the loop: str(col_idx + 1) for every
\* column appended to it, in column order (position i is col_idx + 1).
Bucket(S, i, list) ==
    LET full == S.objs[S.full_dataset]
    IN  IF i > Len(full.df.columns) THEN <<>>
        ELSE (IF list \in Appends(S.metas[full.column_meta[full.df.columns[i]]])
              THEN <<ToString(i)>> ELSE <<>>)
             \o Bucket(S, i + 1, list)

real_values_normals(S) == Bucket(S, 1, "real_values_normals")

real_values_missing(S) == Bucket(S, 1, "real_values_missing")

multinomial_values(S) == Bucket(S, 1, "multinomial_values")

\* A count that forgets the model of the labels.
models_count_from_zero(models) == Cardinality({i \in DOMAIN models : models[i] # <<>>})

\* models_count: 1 for the labels, plus 1 for each list that is not empty.
models_count(models) == 1 + Cardinality({i \in DOMAIN models : models[i] # <<>>})

RECURSIVE join(_, _)
\* sep.join(items): the items with sep between them.
join(sep, items) ==
    IF items = <<>> THEN <<>>
    ELSE IF Len(items) = 1 THEN items
    ELSE <<Head(items), sep>> \o join(sep, Tail(items))

\* template.format(args) for a template without a replacement field: the
\* template itself, whatever the arguments.
format(template, args) == <<template>>

\* Input.create_model_file (body)
create_model_file_body(S) ==
    LET S1 == Log(S, "info", "Writing .model file")
        normals == real_values_normals(S)
        missing == real_values_missing(S)
        multinomial == multinomial_values(S)
        count == models_count(<<normals, missing, multinomial>>)
        Line(T, tag, cols) == Write(T, "clust.model", [tag |-> tag, cols |-> cols])
        F1 == Line(Open(S1, "clust.model"), "model_index", <<"0", " ", ToString(count)>>)
        F2 == Line(F1, "ignore", <<"0">>)
        F3 == IF normals # <<>> THEN Line(F2, "single_normal_cn", join(" ", normals)) ELSE F2
        F4 == IF missing # <<>> THEN Line(F3, "single_normal_cm", join(" ", missing)) ELSE F3
        F5 == IF multinomial # <<>>
              THEN Line(F4, "single_multinomial", format(" ", multinomial)) ELSE F4
    IN  NeedsDf(S1, Ok(F5))

create_model_file(S) == try_function(S, "create_model_file", create_model_file_body(S), ReturnsNone)

\* A file written in one piece by a method that cannot fail on the data.
WriteAll(S, name, lines) == [S EXCEPT !.files = (<<S.cwd, name>> :> lines) @@ @]

\* Input.create_sparams_file (body)
create_sparams_file_body(S, max_duration, max_n_tries, max_cycles) ==
    Ok(WriteAll(Log(S, "info", "Writing .s-params file"), "clust.s-params",
                <<[key |-> "screen_output_p", val |-> "false"],
                  [key |-> "break_on_warnings_p", val |-> "false"],
                  [key |-> "force_new_search_p", val |-> "true"],
                  [key |-> "max_duration", val |-> ToString(max_duration)],
                  [key |-> "max_n_tries", val |-> ToString(max_n_tries)],
                  [key |-> "max_cycles", val |-> ToString(max_cycles)],
                  [key |-> "start_j_list", val |-> "2, 3, 5, 7, 10, 15, 25, 35, 45, 55, 65, 75, 85, 95, 105"]>>))

create_sparams_file(S, max_duration, max_n_tries, max_cycles) ==
    try_function(S, "create_sparams_file",
                 create_sparams_file_body(S, max_duration, max_n_tries, max_cycles), ReturnsNone)

\* Input.create_rparams_file (body)
create_rparams_file_body(S) ==
    Ok(WriteAll(Log(S, "info", "Writing .r-params file"), "clust.r-params",
                <<[key |-> "xref_class_report_att_list", val |-> "0, 1, 2"],
                  [key |-> "report_mode", val |-> "data"],
                  [key |-> "comment_data_headers_p", val |-> "true"]>>))

create_rparams_file(S) == try_function(S, "create_rparams_file", create_rparams_file_body(S), ReturnsNone)

\* Input.create_run_file (body)
create_run_file_body(S) ==
    Ok(WriteAll(Log(S, "info", "Writing run file"), "run_autoclass.sh",
                <<"autoclass -search clust.db2 clust.hd2 clust.model clust.s-params",
                  "autoclass -reports clust.results-bin clust.search clust.r-params">>))

create_run_file(S) == try_function(S, "create_run_file", create_run_file_body(S), ReturnsNone)

\* Input.create_run_file_test (body)
create_run_file_test_body(S) ==
    Ok(WriteAll(Log(S, "info", "Writing run file"), "run_autoclass.sh",
                <<"for a in $(seq 1 60)", "do", "sleep 1", "touch clust.log", "done",
                  "touch clust.rlog">>))

create_run_file_test(S) ==
    try_function(S, "create_run_file_test", create_run_file_test_body(S), ReturnsNone)

\* Input.prepare_input_files (body): seven wrapped calls, each through its own
\* try_function; the value a call returns is dropped.
prepare_input_files_body(S) ==
    LET r == Then(Then(Then(Then(Then(Then(
                 change_working_dir(Log(S, "info", "Preparing data and parameters files")),
                 create_db2_file), create_hd2_file), create_model_file),
                 LAMBDA T : create_sparams_file(T, 3600, 200, 1000)),
                 create_rparams_file), create_run_file)
    IN  [S |-> r.S, exc |-> r.exc]

prepare_input_files(S) ==
    try_function(S, "prepare_input_files", prepare_input_files_body(S), ReturnsNone)

\* Input.run (body): the process is started and not waited for.
run_body(S, tag) ==
    Ok([Log(S, "info", "Running clustering...") EXCEPT !.launched = @ + 1])

run(S, tag) == try_function(S, "run", run_body(S, tag), ReturnsTrue)

\* The files print_files looks for, in its order.
Printed == <<"clust.hd2", "clust.model", "clust.s-params", "clust.r-params", "run_autoclass.sh">>

RECURSIVE Content(_, _)
\* The string print_files builds: for each of the names that exists in the
\* working directory, a banner with the name and then the lines of the file.
Content(S, names) ==
    IF names = <<>> THEN <<>>
    ELSE (IF <<S.cwd, Head(names)>> \in DOMAIN S.files
          THEN <<[banner |-> Head(names), lines |-> S.files[<<S.cwd, Head(names)>>]]>>
          ELSE <<>>)
         \o Content(S, Tail(names))

\* Input.print_files (body): reads the files that exist, changes nothing.
print_files_body(S) == Ok(S)

print_files(S) == try_function(S, "print_files", print_files_body(S), Content(S, Printed))

(***************************************************************************)
(* The session as a state machine: one action per call of a method of      *)
(* Input by the caller.                                                    *)
(***************************************************************************)
VARIABLES
    tolerate_error,   \* Input.tolerate_error
    inputfolder,      \* Input.inputfolder
    pandas_drops,     \* whether the installed pandas drops nuisance columns
    had_error,        \* Input.had_error
    input_datasets,   \* Input.input_datasets: the ids of the Dataset objects
    full_dataset,     \* Input.full_dataset: the id of a Dataset object
    objs,             \* the Dataset objects: id -> [input_file, df, column_meta]
    metas,            \* the column meta dicts: id -> [type, error, missing]
    files,            \* the output files: <<directory, name>> -> lines
    cwd,              \* the working directory of the process
    launched,         \* the number of external processes started
    logged,           \* the log records emitted by the last call
    trace,            \* the wrapped methods invoked by the last call
    ever_failed,      \* a body has raised since construction
    last              \* the last call: method, exception raised to the caller, value

vars == <<tolerate_error, inputfolder, pandas_drops, had_error, input_datasets,
          full_dataset, objs, metas, files, cwd, launched, logged, trace,
          ever_failed, last>>

\* Input.__init__, for each choice of the arguments tolerate_error and inputfolder.
Construct(folders, pandas, start) ==
    /\ tolerate_error \in BOOLEAN
    /\ inputfolder \in folders
    /\ pandas_drops \in pandas
    /\ had_error = FALSE
    /\ input_datasets = <<>>
    /\ full_dataset = 0
    /\ objs = (0 :> Dataset)
    /\ metas = <<>>
    /\ files = <<>>
    /\ cwd = start
    /\ launched = 0
    /\ logged = <<>>
    /\ trace = <<>>
    /\ ever_failed = FALSE
    /\ last = [op |-> "__init__", raised |-> "none", ret |-> ReturnsNone]

Init == Construct({"", "/data"}, {TRUE}, "/data")

\* The state a call starts from.
Self ==
    [tolerate_error |-> tolerate_error, inputfolder |-> inputfolder,
     pandas_drops |-> pandas_drops, had_error |-> had_error,
     input_datasets |-> input_datasets, full_dataset |-> full_dataset,
     objs |-> objs, metas |-> metas, files |-> files, cwd |-> cwd,
     launched |-> launched, logged |-> <<>>, trace |-> <<>>,
     ever_failed |-> ever_failed]

\* The state a call of op with result r leaves.
Returns(op, r) ==
    /\ tolerate_error' = r.S.tolerate_error
    /\ inputfolder' = r.S.inputfolder
    /\ pandas_drops' = r.S.pandas_drops
    /\ had_error' = r.S.had_error
    /\ input_datasets' = r.S.input_datasets
    /\ full_dataset' = r.S.full_dataset
    /\ objs' = r.S.objs
    /\ metas' = r.S.metas
    /\ files' = r.S.files
    /\ cwd' = r.S.cwd
    /\ launched' = r.S.launched
    /\ logged' = r.S.logged
    /\ trace' = r.S.trace
    /\ ever_failed' = r.S.ever_failed
    /\ last' = [op |-> op, raised |-> r.exc.kind, ret |-> r.ret]

AddInputData(input_file, input_type) ==
    /\ Len(input_datasets) < MaxDatasets
    /\ Returns("add_input_data", add_input_data(Self, input_file, input_type, "0.01"))

RECURSIVE Width(_)
\* The number of columns of the frames a merge would put side by side.
Width(ids) == IF ids = <<>> THEN 0 ELSE Len(objs[Head(ids)].df.columns) + Width(Tail(ids))

\* With full_dataset an alias of input_datasets[0], every further merge widens
\* the table; the model stops merging at MaxColumns columns.
MergeDataframes ==
    /\ Width(input_datasets) <= MaxColumns
    /\ Returns("merge_dataframes", merge_dataframes(Self))

ChangeWorkingDir == Returns("change_working_dir", change_working_dir(Self))

CreateDb2File == Returns("create_db2_file", create_db2_file(Self))

CreateHd2File == Returns("create_hd2_file", create_hd2_file(Self))

CreateModelFile == Returns("create_model_file", create_model_file(Self))

CreateSparamsFile == Returns("create_sparams_file", create_sparams_file(Self, 3600, 200, 1000))

CreateRparamsFile == Returns("create_rparams_file", create_rparams_file(Self))

CreateRunFile == Returns("create_run_file", create_run_file(Self))

CreateRunFileTest == Returns("create_run_file_test", create_run_file_test(Self))

PrepareInputFiles == Returns("prepare_input_files", prepare_input_files(Self))

Run ==
    /\ launched < MaxRuns
    /\ Returns("run", run(Self, ""))

PrintFiles == Returns("print_files", print_files(Self))

\* The calls a caller makes in a session that loads one file: the file read
\* with its role, with a role the column cannot be cast to, with a role the
\* code rejects, and a path that does not exist.
SessionInputs ==
    {<<"A.tsv", "discrete">>, <<"A.tsv", "real scalar">>, <<"A.tsv", "text">>,
     <<"missing.tsv", "discrete">>}

Next ==
    \/ \E in \in SessionInputs : AddInputData(in[1], in[2])
    \/ MergeDataframes
    \/ ChangeWorkingDir
    \/ CreateDb2File
    \/ CreateHd2File
    \/ CreateModelFile
    \/ CreateSparamsFile
    \/ CreateRparamsFile
    \/ CreateRunFile
    \/ CreateRunFileTest
    \/ PrepareInputFiles
    \/ Run
    \/ PrintFiles

Spec == Init /\ [][Next]_vars

\* A session that changes directory, loads and merges, over every file and
\* every role.
NextLoad ==
    \/ \E input_file \in Paths, input_type \in Roles : AddInputData(input_file, input_type)
    \/ MergeDataframes
    \/ ChangeWorkingDir

InitLoad == Construct({"", "/data"}, {TRUE}, "/start")

SpecLoad == InitLoad /\ [][NextLoad]_vars

\* A session that loads, merges and writes the header and the model file.
NextFiles ==
    \/ \E input_file \in Paths, input_type \in Roles : AddInputData(input_file, input_type)
    \/ MergeDataframes
    \/ CreateHd2File
    \/ CreateModelFile

InitFiles == Construct({""}, BOOLEAN, "/start")

SpecFiles == InitFiles /\ [][NextFiles]_vars

(***************************************************************************)
(* Properties                                                              *)
(***************************************************************************)
\* The record of the call the caller made last (nested calls come before it).
Top == trace[Len(trace)]

\* The last call was a call of op whose body ran.
Executed(op) == last.op = op /\ trace # <<>> /\ Top.executed

\* The last call was a call of op whose body ran to its end.
Completed(op) == Executed(op) /\ ~Top.failed

\* The merged Dataset object and its table.
Full == objs[full_dataset]

\* The meta data of the column at position i of the merged table.
MetaAt(i) == metas[Full.column_meta[Full.df.columns[i]]]

\* C1: a wrapped method's body runs if and only if tolerate_error is on or no
\* body has raised before; had_error is set exactly when a body has raised and
\* is never reset; with tolerate_error off, a call made after a failure changes
\* neither the datasets, the merged dataset, the files nor the processes started.
C1Step ==
    /\ \A i \in DOMAIN trace' :
           trace'[i].executed <=> (tolerate_error \/ ~trace'[i].failed_before)
    /\ had_error' <=> ever_failed'
    /\ had_error => had_error'
    /\ (~tolerate_error /\ ever_failed) =>
           UNCHANGED <<input_datasets, full_dataset, objs, metas, files, cwd, launched>>

C1_StickyNoOp == [][C1Step]_vars

\* A call of run made after a failure, with tolerate_error off: nothing started.
C1_Witness ==
    /\ ~tolerate_error /\ last.op = "run"
    /\ trace = <<[op |-> "run", executed |-> FALSE, failed |-> FALSE, failed_before |-> TRUE]>>
    /\ had_error /\ launched = 0

\* C2: every call returns to the caller without an exception; when a body
\* raised, had_error is true and the call logged at least one error line.
C2_NoEscape ==
    /\ last.raised = "none"
    /\ (\E i \in DOMAIN trace : trace[i].failed) =>
           /\ had_error
           /\ \E j \in DOMAIN logged : logged[j].level = "error"

\* The zero-point assertion of create_hd2_file failed and was caught.
C2_Witness ==
    /\ Executed("create_hd2_file") /\ Top.failed /\ last.raised = "none"
    /\ \E j \in DOMAIN logged : logged[j].msg = "min value shoud be >= 0.0"

\* A call made with tolerate_error off after a body has raised.
AfterFailure == ~tolerate_error /\ trace # <<>> /\ Top.failed_before

\* C3 as stated: with tolerate_error off, a call made after a failure is
\* skipped, raises nothing, and logs an entry saying that it was skipped.
C3_SkippedAndLogged ==
    AfterFailure => (~Top.executed /\ last.raised = "none" /\ logged # <<>>)

\* C3 as amended: with tolerate_error off, a call made after a failure is
\* skipped and raises nothing, and it logs nothing at all.
C3_SkippedSilently ==
    AfterFailure => (~Top.executed /\ last.raised = "none" /\ logged = <<>>)

\* A merge skipped after a failure.
C3_Witness == AfterFailure /\ last.op = "merge_dataframes" /\ ~Top.executed

\* C4: after a call of merge_dataframes whose body ran on datasets that each
\* have pairwise distinct column names, the column names of the session's
\* merged table are pairwise distinct.
C4_NoDuplicateAfterMerge ==
    (/\ Executed("merge_dataframes") /\ ~IsNone(Full.df)
     /\ full_dataset \notin Range(input_datasets)
     /\ \A k \in DOMAIN input_datasets : ~HasDuplicates(objs[input_datasets[k]].df.columns))
    => ~HasDuplicates(Full.df.columns)

\* C5: the Dataset that add_input_data has just appended has pairwise distinct
\* column names.
C5_AppendedHasDistinctNames ==
    Completed("add_input_data") =>
        ~HasDuplicates(objs[input_datasets[Len(input_datasets)]].df.columns)

\* C6: after merge_dataframes has completed, a column of the merged table has
\* the missing flag if and only if one of its cells is absent.
C6_MissingIffAbsent ==
    Completed("merge_dataframes") =>
        \A i \in DOMAIN Full.df.columns :
            MetaAt(i).missing <=> (\E r \in Full.df.index : Full.df.data[i][r] = NaN)

\* A merge of two files completed, and a column without an empty cell in its
\* file has the flag because the other file brought a row it does not have.
C6_Witness ==
    /\ Completed("merge_dataframes") /\ Len(input_datasets) = 2
    /\ \E i \in DOMAIN Full.df.columns :
           Full.df.columns[i] = <<"s">> /\ MetaAt(i).missing

\* The table a file gives when it is loaded: its rows, and its header cleaned.
LoadedIndex(id) == FS[objs[id].input_file].index
LoadedColumns(id) ==
    LET header == FS[objs[id].input_file].header
    IN  [i \in 1..(Len(header) - 1) |-> regex_sub(header[i + 1])]

\* C10: after a merge that has completed, the table of every loaded Dataset
\* has the rows and the columns it had when it was appended, and with more than
\* one dataset loaded the merged Dataset is none of the loaded ones.
C10_SourcesUntouched ==
    Completed("merge_dataframes") =>
        /\ \A k \in DOMAIN input_datasets :
               LET id == input_datasets[k]
               IN  /\ objs[id].df.index = LoadedIndex(id)
                   /\ objs[id].df.columns = LoadedColumns(id)
        /\ Len(input_datasets) > 1 =>
               \A k \in DOMAIN input_datasets : input_datasets[k] # full_dataset

\* The columns of the merged table by role and missing flag.
RealNoMissing ==
    {i \in DOMAIN Full.df.columns :
        MetaAt(i).type \in {"real scalar", "real location"} /\ ~MetaAt(i).missing}
RealMissing ==
    {i \in DOMAIN Full.df.columns :
        MetaAt(i).type \in {"real scalar", "real location"} /\ MetaAt(i).missing}
Discrete == {i \in DOMAIN Full.df.columns : MetaAt(i).type = "discrete"}

\* The model file in the working directory.
ModelFile == files[<<cwd, "clust.model">>]

\* The column indices a line of the model file names.
Tokens(text) == SelectSeq(text, LAMBDA t : t # " ")
Named(tag) ==
    {Tokens(ModelFile[k].cols) : k \in {j \in DOMAIN ModelFile : ModelFile[j].tag = tag}}
Indices(positions) == {ToString(i) : i \in positions}

\* C7: after create_model_file has completed, every column of the merged table
\* was appended to exactly one of the three lists, each list holds the columns
\* of its role and missing flag, index 0 is ignored, and the model_index line
\* declares 1 plus the number of non-empty lists.
C7_ModelComponents ==
    Completed("create_model_file") =>
        /\ \A i \in DOMAIN Full.df.columns : Cardinality(Appends(MetaAt(i))) = 1
        /\ Range(real_values_normals(Self)) = Indices(RealNoMissing)
        /\ Range(real_values_missing(Self)) = Indices(RealMissing)
        /\ Range(multinomial_values(Self)) = Indices(Discrete)
        /\ ModelFile[1] =
               [tag |-> "model_index",
                cols |-> <<"0", " ", ToString(1 + Cardinality({b \in {RealNoMissing, RealMissing, Discrete} : b # {}}))>>]
        /\ ModelFile[2] = [tag |-> "ignore", cols |-> <<"0">>]

\* A model file for a table with a discrete column and a real column with an
\* absent cell: three model components.
C7_Witness ==
    /\ Completed("create_model_file")
    /\ Discrete # {} /\ RealMissing # {} /\ RealNoMissing = {}
    /\ ModelFile[1].cols = <<"0", " ", "3">>

\* C8: after create_model_file has completed, the line of every non-empty list
\* names exactly the indices of the columns of that list.
C8_BucketLines ==
    Completed("create_model_file") =>
        /\ RealNoMissing # {} =>
               \E t \in Named("single_normal_cn") : Range(t) = Indices(RealNoMissing)
        /\ RealMissing # {} =>
               \E t \in Named("single_normal_cm") : Range(t) = Indices(RealMissing)
        /\ Discrete # {} =>
               \E t \in Named("single_multinomial") : Range(t) = Indices(Discrete)

\* The header file in the working directory, and its attribute declarations.
Hd2File == files[<<cwd, "clust.hd2">>]
Declared == {k \in DOMAIN Hd2File : "idx" \in DOMAIN Hd2File[k]}

\* The real scalar columns of the merged table and their observed minima.
RealScalar == {i \in DOMAIN Full.df.columns : MetaAt(i).type = "real scalar"}
Negative == {i \in RealScalar : ColMin(Full.df, i).k = "num" /\ ColMin(Full.df, i).v < 0}
NonNegative == {i \in RealScalar : ColMin(Full.df, i).k = "num" /\ ColMin(Full.df, i).v >= 0}

\* C9: when create_hd2_file runs on a merged table with a real scalar column
\* whose minimum is below 0.0, the call fails, had_error is true, nothing is
\* raised and no declaration is written for that column; when every real
\* scalar column has a minimum of at least 0.0, the call completes and the
\* file declares attribute 0 and then every column at its position plus one.
C9_ZeroPoint ==
    (Executed("create_hd2_file") /\ ~IsNone(Full.df)) =>
        /\ Negative # {} =>
               /\ Top.failed /\ had_error /\ last.raised = "none"
               /\ \A k \in Declared : Hd2File[k].idx \notin Negative
        /\ NonNegative = RealScalar =>
               /\ ~Top.failed
               /\ Len(Hd2File) = 4 + Len(Full.df.columns)
               /\ Hd2File[4].idx = 0
               /\ \A i \in DOMAIN Full.df.columns :
                      /\ Hd2File[4 + i].idx = i
                      /\ Hd2File[4 + i].name = Full.df.columns[i]
                      /\ Hd2File[4 + i].type = MetaAt(i).type

====
